---- MODULE Spec2Model ----
(***************************************************************************)
(* Model of the Zona da Mata monitoring dashboard (src/app.py).            *)
(*                                                                         *)
(* A DataFrame is a sequence of rows; a row carries its index label and    *)
(* one cell per column.  A cell is a record [t, v, s]:                     *)
(*   t = "nan"    a missing value (NaN)                                    *)
(*   t = "NA"     a missing value of the nullable Int64 dtype (pd.NA)      *)
(*   t = "str"    a text cell, s is its sequence of characters             *)
(*   t = "float"  a float, v is the value counted in halves (5 = 2.5)      *)
(*   t = "int"    an integer, v is the value counted in halves (4 = 2)     *)
(* Numbers are kept in halves so that rounding of x.5 can be modelled.     *)
(***************************************************************************)
EXTENDS Integers, Sequences, FiniteSets, TLC

\* ------------------------------------------------------------------ bounds

\* largest magnitude (in halves) of a float cell of the cleaning inputs
MaxAbs == 2
\* largest number of rows of a table given to preprocess_data on its own
MaxCleanRows == 2
\* largest number of rows of the input file in the filter/KPI specification
MaxRows == 2
\* largest number of rows of the input file in the render-pass specification
MaxFileRows == 1

\* ----------------------------------------------------------------- columns

CREDIT_COL == "Credito Pronaf em 2025 (R$)"
IMMEDIATE_REGION_COL == "Regiao Geografica Imediata (2022)"
MUNICIPALITY_COL == "Municipio"
IBGE_COL == "Codigo IBGE"
AF_COL == "Quantidade de Agricultores Familiares"
WOMEN_COL == "QUANTIDADE DE MULHERES EM CAF ATIVO"
MEN_COL == "QUANTIDADE DE HOMENS EM CAF ATIVO"
CAF_PF_COL == "CAFs PF ATIVO"
CAF_PJ_COL == "CAFs PJ ATIVO"
OPERATIONS_COL == "Operacoes em 2025"

NUMERIC_COLUMNS ==
    <<CAF_PF_COL, CAF_PJ_COL, WOMEN_COL, MEN_COL, AF_COL, OPERATIONS_COL, CREDIT_COL>>

INTEGER_COLUMNS ==
    <<CAF_PF_COL, CAF_PJ_COL, WOMEN_COL, MEN_COL, AF_COL>>

\* the header row of data/df_merged.csv
COLUMNS ==
    {IMMEDIATE_REGION_COL, MUNICIPALITY_COL, IBGE_COL, CAF_PF_COL, CAF_PJ_COL,
     WOMEN_COL, MEN_COL, AF_COL, OPERATIONS_COL, CREDIT_COL}

Range(seq) == {seq[i] : i \in DOMAIN seq}

\* ------------------------------------------------------------------- cells

NaN == [t |-> "nan", v |-> 0, s |-> <<>>]
NA == [t |-> "NA", v |-> 0, s |-> <<>>]
Str(chars) == [t |-> "str", v |-> 0, s |-> chars]
FloatVal(halves) == [t |-> "float", v |-> halves, s |-> <<>>]
IntVal(halves) == [t |-> "int", v |-> halves, s |-> <<>>]

isna(c) == c.t \in {"nan", "NA"}
IsNumber(c) == c.t \in {"float", "int"}

\* ------------------------------------------------- pd.to_numeric (coerce)

Digits == {"0", "1", "2", "3", "4", "5", "6", "7", "8", "9"}

DigitVal(d) ==
    CASE d = "0" -> 0 [] d = "1" -> 1 [] d = "2" -> 2 [] d = "3" -> 3
      [] d = "4" -> 4 [] d = "5" -> 5 [] d = "6" -> 6 [] d = "7" -> 7
      [] d = "8" -> 8 [] d = "9" -> 9

RECURSIVE DigitsVal(_)
DigitsVal(chars) ==
    IF chars = <<>> THEN 0
    ELSE 10 * DigitsVal(SubSeq(chars, 1, Len(chars) - 1)) + DigitVal(chars[Len(chars)])

IsDigits(chars) == chars # <<>> /\ \A i \in DOMAIN chars : chars[i] \in Digits

\* where the decimal point of body is, Len(body) + 1 when it has none
DotPos(body) ==
    IF \E i \in DOMAIN body : body[i] = "."
    THEN CHOOSE i \in DOMAIN body :
             body[i] = "." /\ \A j \in DOMAIN body : body[j] = "." => i <= j
    ELSE Len(body) + 1

\* An unsigned decimal with its point at dot: digits, and an optional fraction
\* ".0" or ".5" (the fractions the halves can hold; the inputs hold no other).
\* Anything else, a decimal comma included, is no number; v is in halves.
WellFormed(body, dot) ==
    /\ IsDigits(SubSeq(body, 1, dot - 1))
    /\ dot > Len(body) \/ SubSeq(body, dot + 1, Len(body)) \in {<<"0">>, <<"5">>}

ParseUnsigned(body, dot) ==
    IF WellFormed(body, dot)
    THEN [ok |-> TRUE,
          v |-> 2 * DigitsVal(SubSeq(body, 1, dot - 1))
                + (IF SubSeq(body, dot + 1, Len(body)) = <<"5">> THEN 1 ELSE 0)]
    ELSE [ok |-> FALSE, v |-> 0]

Negated(p) == [ok |-> p.ok, v |-> 0 - p.v]

\* the text of a cell as a decimal number, with an optional minus sign
ParseNumber(chars) ==
    IF chars # <<>> /\ chars[1] = "-"
    THEN Negated(ParseUnsigned(Tail(chars), DotPos(Tail(chars))))
    ELSE ParseUnsigned(chars, DotPos(chars))

\* errors="coerce": what does not parse becomes NaN
Coerce(p) == IF p.ok THEN FloatVal(p.v) ELSE NaN

\* pd.to_numeric(series, errors="coerce") on one cell
to_numeric(c) == IF c.t = "str" THEN Coerce(ParseNumber(c.s)) ELSE c

\* ------------------------------------------------------------- preprocess

\* rounding written as "the next integer up"
round_up(halves) == 2 * ((halves \div 2) + 1)

\* Series.round(): numpy rounds halves to the even integer
round(halves) ==
    IF halves % 2 = 0 THEN halves
    ELSE LET k == (halves - 1) \div 2
         IN  IF k % 2 = 0 THEN 2 * k ELSE 2 * (k + 1)

\* treated_df[CREDIT_COL].fillna(0.0).astype(float) on one cell
CleanCredit(c) == IF isna(c) THEN FloatVal(0) ELSE FloatVal(c.v)

\* treated_df[col].fillna(0).round().astype(int) on one cell
CleanInteger(c) == IF isna(c) THEN IntVal(0) ELSE IntVal(round(c.v))

\* .astype("Int64") accepts a float only when it holds a whole number
Int64Castable(c) == isna(c) \/ c.v % 2 = 0

\* .astype("Int64") on one cell
ToInt64(c) == IF isna(c) THEN NA ELSE IntVal(c.v)

\* pd.to_numeric(..., errors="coerce").astype("Int64") on one cell
CleanIbge(c) == ToInt64(to_numeric(c))

\* for col in NUMERIC_COLUMNS: pd.to_numeric
NumericPass(cells) ==
    [col \in COLUMNS |->
        IF col \in Range(NUMERIC_COLUMNS) THEN to_numeric(cells[col]) ELSE cells[col]]

CreditPass(cells) == [cells EXCEPT ![CREDIT_COL] = CleanCredit(@)]

\* for col in INTEGER_COLUMNS: fillna(0).round().astype(int)
IntegerPass(cells) ==
    [col \in COLUMNS |->
        IF col \in Range(INTEGER_COLUMNS) THEN CleanInteger(cells[col]) ELSE cells[col]]

IbgePass(cells) == [cells EXCEPT ![IBGE_COL] = CleanIbge(@)]

\* One row of preprocess_data: the column passes, in the order of the code.
PreprocessRow(cells) == IbgePass(IntegerPass(CreditPass(NumericPass(cells))))

\* preprocess_data: [ok |-> TRUE, df |-> the treated frame], or ok = FALSE when
\* the Int64 cast of the identifier column raises TypeError.
preprocess_data(df) ==
    IF \A i \in DOMAIN df : Int64Castable(to_numeric(df[i].cells[IBGE_COL]))
    THEN [ok |-> TRUE,
          df |-> [i \in DOMAIN df |->
                     [idx |-> df[i].idx, cells |-> PreprocessRow(df[i].cells)]]]
    ELSE [ok |-> FALSE, df |-> <<>>]

\* ------------------------------------------------------------ input tables

MkRow(region, mun, ibge, pf, pj, women, men, af, ops, credit) ==
    [col \in COLUMNS |->
        CASE col = IMMEDIATE_REGION_COL -> region
          [] col = MUNICIPALITY_COL -> mun
          [] col = IBGE_COL -> ibge
          [] col = CAF_PF_COL -> pf
          [] col = CAF_PJ_COL -> pj
          [] col = WOMEN_COL -> women
          [] col = MEN_COL -> men
          [] col = AF_COL -> af
          [] col = OPERATIONS_COL -> ops
          [] col = CREDIT_COL -> credit]

\* pd.read_csv gives the rows a RangeIndex 0, 1, ...
WithIndex(rows) == [i \in DOMAIN rows |-> [idx |-> i - 1, cells |-> rows[i]]]

SeqsUpTo(S, n) == UNION {[1..k -> S] : k \in 0..n}

RA == <<"R", "A">>
RB == <<"R", "B">>
MA == <<"M", "A">>
MB == <<"M", "B">>

\* text found in a numeric column of a hand-curated file
TextCells ==
    {Str(<<"a", "b", "c">>), Str(<<"-", "1">>), Str(<<"1", ".", "5">>),
     Str(<<"2">>), Str(<<"1", ",", "5">>)}

\* the cells of a numeric column: blank, text, negative and valid numbers
NumericCells == {NaN} \cup TextCells \cup {FloatVal(h) : h \in (0 - MaxAbs)..MaxAbs}

\* the cells of the identifier column: blank, text, a code, a fraction
IbgeCells == {NaN, Str(<<"x">>), FloatVal(246), FloatVal(1)}

\* the rows given to preprocess_data on its own: every numeric column holds x
CleanRows ==
    {MkRow(Str(RA), Str(MA), z, x, x, x, x, x, x, x) : x \in NumericCells, z \in IbgeCells}

CleanTables == {WithIndex(rows) : rows \in SeqsUpTo(CleanRows, MaxCleanRows)}

\* ------------------------------------------------------------- input file

TODAS == <<"T", "o", "d", "a", "s">>
TODOS == <<"T", "o", "d", "o", "s">>

\* rows of the input file: a blank credit and operations cell; a municipality
\* name shared with another region, text and a fraction in the counts; a row
\* with no region and a decimal comma; a row with no municipality name; labels
\* that read like the selectors' sentinels, with a negative amount; a row whose
\* identifier is a fraction
FileRows ==
    {MkRow(Str(RA), Str(MA), FloatVal(246), FloatVal(4), FloatVal(2), FloatVal(2),
           FloatVal(4), FloatVal(6), NaN, NaN),
     MkRow(Str(RB), Str(MA), NaN, Str(<<"a", "b", "c">>), NaN, FloatVal(3),
           FloatVal(2), FloatVal(2), FloatVal(2), FloatVal(5)),
     MkRow(NaN, Str(MB), Str(<<"x">>), FloatVal(2), FloatVal(0), NaN,
           FloatVal(2), FloatVal(4), FloatVal(4), Str(<<"1", ",", "5">>)),
     MkRow(Str(RA), NaN, FloatVal(248), FloatVal(2), FloatVal(2), FloatVal(4),
           NaN, Str(<<"2">>), FloatVal(2), FloatVal(3)),
     MkRow(Str(TODAS), Str(TODOS), FloatVal(250), FloatVal(2), FloatVal(2), FloatVal(2),
           FloatVal(2), FloatVal(2), Str(<<"-", "1">>), FloatVal(0 - 2)),
     MkRow(Str(RB), Str(MB), FloatVal(1), FloatVal(2), FloatVal(2), FloatVal(2),
           FloatVal(2), FloatVal(2), FloatVal(2), FloatVal(2))}

Tables(n) == {WithIndex(rows) : rows \in SeqsUpTo(FileRows, n)}

\* DATA_FILE on disk: absent, or a delimited file with a header and rows
Missing == [exists |-> FALSE, df |-> <<>>]
OnDisk(df) == [exists |-> TRUE, df |-> df]

\* ------------------------------------------------------------------ caches

\* an st.cache_data store with one key (the path, or no argument at all)
EmptyCache == [hit |-> FALSE, value |-> <<>>]
Cached(value) == [hit |-> TRUE, value |-> value]

\* a call answered from the store: the body does not run
CacheHit(cache) == [exc |-> "", value |-> cache.value, cache |-> cache, io |-> <<>>]

\* a call that ran the body: a returned value is stored, an exception is not
CacheMiss(cache, r) ==
    [exc |-> r.exc, value |-> r.value, io |-> r.io,
     cache |-> IF r.exc = "" THEN Cached(r.value) ELSE cache]

\* a call of a function that has no decorator: nothing is stored
Undecorated(cache, r) == [exc |-> r.exc, value |-> r.value, io |-> r.io, cache |-> cache]

\* the outcome of preprocess_data as the outcome of load_data's body
Treated(p) ==
    [exc |-> IF p.ok THEN "" ELSE "TypeError", value |-> p.df,
     io |-> <<"read_csv", "preprocess_data">>]

\* the body of load_data: pd.read_csv, FileNotFoundError raised again, then
\* preprocess_data
read_and_preprocess(path) ==
    IF ~path.exists
    THEN [exc |-> "FileNotFoundError", value |-> <<>>, io |-> <<"read_csv">>]
    ELSE Treated(preprocess_data(path.df))

\* load_data without its decorator: the body runs on every call
load_data_uncached(cache, path) == Undecorated(cache, read_and_preprocess(path))

\* load_data under @st.cache_data
load_data(cache, path) ==
    IF cache.hit THEN CacheHit(cache) ELSE CacheMiss(cache, read_and_preprocess(path))

\* the boundary document served at MG_GEOJSON_URL
GEOJSON == <<"geojs-31-mun">>

\* what urlopen(MG_GEOJSON_URL, timeout=30) and json.loads can end in
Responses == {"ok", "URLError", "timeout", "JSONDecodeError"}

\* the body of load_mg_geojson: urlopen with its timeout, then json.loads
fetch_geojson(resp) ==
    IF resp = "ok"
    THEN [exc |-> "", value |-> GEOJSON, io |-> <<"urlopen">>]
    ELSE [exc |-> resp, value |-> <<>>, io |-> <<"urlopen">>]

\* load_mg_geojson without its decorator
load_mg_geojson_uncached(cache, resp) == Undecorated(cache, fetch_geojson(resp))

\* load_mg_geojson under @st.cache_data
load_mg_geojson(cache, resp) ==
    IF cache.hit THEN CacheHit(cache) ELSE CacheMiss(cache, fetch_geojson(resp))

\* ------------------------------------------------------------------ filter

\* df[mask]: the rows whose mask entry is true, in order, index labels kept
RECURSIVE BooleanIndex(_, _)
BooleanIndex(df, mask) ==
    IF df = <<>> THEN <<>>
    ELSE IF Head(mask) THEN <<Head(df)>> \o BooleanIndex(Tail(df), Tail(mask))
    ELSE BooleanIndex(Tail(df), Tail(mask))

\* df[col].dropna().unique().tolist(), as a set of labels
Unique(df, col) == {df[i].cells[col].s : i \in {j \in DOMAIN df : ~isna(df[j].cells[col])}}

\* the options of the region selectbox
immediate_regions(df) == {TODAS} \cup Unique(df, IMMEDIATE_REGION_COL)

region_df(df, selected_region) ==
    IF selected_region = TODAS THEN df
    ELSE BooleanIndex(df, [i \in DOMAIN df |->
             df[i].cells[IMMEDIATE_REGION_COL] = Str(selected_region)])

\* the options of the municipality multiselect
municipality_options(df, selected_region) ==
    {TODOS} \cup Unique(region_df(df, selected_region), MUNICIPALITY_COL)

\* region_df[region_df[MUNICIPALITY_COL].isin(selected_municipalities)]
isin(df, selected_municipalities) ==
    BooleanIndex(df, [i \in DOMAIN df |->
        \E m \in selected_municipalities : df[i].cells[MUNICIPALITY_COL] = Str(m)])

\* the municipality step applied to the whole frame instead of region_df
filter_data_leak(df, selected_region, selected_municipalities) ==
    IF selected_municipalities = {} \/ TODOS \in selected_municipalities
    THEN region_df(df, selected_region)
    ELSE isin(df, selected_municipalities)

\* the region step left out
filter_data_noregion(df, selected_region, selected_municipalities) ==
    IF selected_municipalities = {} \/ TODOS \in selected_municipalities
    THEN df
    ELSE isin(df, selected_municipalities)

filter_data(df, selected_region, selected_municipalities) ==
    IF selected_municipalities = {} \/ TODOS \in selected_municipalities
    THEN region_df(df, selected_region)
    ELSE isin(region_df(df, selected_region), selected_municipalities)

\* filtered_df.empty
empty_never(df) == FALSE

empty(df) == Len(df) = 0

\* -------------------------------------------------------------------- KPIs

\* df[col].sum(): missing cells are skipped; the sum is in halves
RECURSIVE Sum(_, _)
Sum(df, col) ==
    IF df = <<>> THEN 0
    ELSE (IF isna(Head(df).cells[col]) THEN 0 ELSE Head(df).cells[col].v) + Sum(Tail(df), col)

\* df[col].nunique(): the distinct values, missing ones not counted
nunique(df, col) == Cardinality(Unique(df, col))

\* the women total taken from the family-farmer column
render_kpis_wrongcol(df) ==
    [total_agricultores |-> Sum(df, AF_COL) \div 2,
     total_credito |-> Sum(df, CREDIT_COL),
     total_mulheres |-> Sum(df, AF_COL) \div 2,
     total_municipios |-> nunique(df, MUNICIPALITY_COL)]

\* the four scalars of render_kpis: counts in units, the amount in halves
render_kpis(df) ==
    [total_agricultores |-> Sum(df, AF_COL) \div 2,
     total_credito |-> Sum(df, CREDIT_COL),
     total_mulheres |-> Sum(df, WOMEN_COL) \div 2,
     total_municipios |-> nunique(df, MUNICIPALITY_COL)]

NoKpis ==
    [total_agricultores |-> 0, total_credito |-> 0, total_mulheres |-> 0,
     total_municipios |-> 0]

\* --------------------------------------------------------------- dashboard

\* px.choropleth_mapbox over map_df and the geometry, when the fetch returned
MapFigure(map_df, geo) ==
    [exc |-> geo.exc, locations |-> IF geo.exc = "" THEN Len(map_df) ELSE 0,
     cache |-> geo.cache, io |-> geo.io]

\* build_impacted_farmers_map: the rows with an identifier, then the geometry
build_impacted_farmers_map(df, cache, resp) ==
    MapFigure(BooleanIndex(df, [i \in DOMAIN df |-> ~isna(df[i].cells[IBGE_COL])]),
              load_mg_geojson(cache, resp))

TailOfDashboard ==
    <<"scatter", "credit_concentration", "donut", "dataframe", "download_button">>

\* the dashboard drawn around the outcome of the map: exc is the exception
\* that leaves render_dashboard (none), map_exc the one caught in the map's
\* column, out the elements drawn, in order
Dashboard(df, map) ==
    [exc |-> "", map_exc |-> map.exc, kpis |-> render_kpis(df),
     cache |-> map.cache, io |-> map.io,
     out |-> <<"kpis">>
             \o (IF map.exc = "" THEN <<"map">>
                 ELSE <<"map_warning", "credit_concentration">>)
             \o TailOfDashboard]

\* the map built outside any try: its exception ends the pass
DashboardNoTry(df, map) ==
    [exc |-> map.exc, map_exc |-> map.exc, kpis |-> render_kpis(df),
     cache |-> map.cache, io |-> map.io,
     out |-> IF map.exc = "" THEN <<"kpis", "map">> \o TailOfDashboard ELSE <<"kpis">>]

\* the full-width chart left out when the fallback already showed it
DashboardDedup(df, map) ==
    [exc |-> "", map_exc |-> map.exc, kpis |-> render_kpis(df),
     cache |-> map.cache, io |-> map.io,
     out |-> IF map.exc = "" THEN <<"kpis", "map">> \o TailOfDashboard
             ELSE <<"kpis", "map_warning", "credit_concentration", "scatter",
                    "donut", "dataframe", "download_button">>]

render_dashboard_notry(df, cache, resp) ==
    DashboardNoTry(df, build_impacted_farmers_map(df, cache, resp))

render_dashboard_dedup(df, cache, resp) ==
    DashboardDedup(df, build_impacted_farmers_map(df, cache, resp))

render_dashboard(df, cache, resp) ==
    Dashboard(df, build_impacted_farmers_map(df, cache, resp))

\* --------------------------------------------------------------- variables

VARIABLES
    file,                    \* DATA_FILE on disk
    cache_load_data,         \* the st.cache_data store of load_data
    cache_geojson,           \* the st.cache_data store of load_mg_geojson
    pc,                      \* where the current run of main is
    base_df,                 \* main: base_df
    selected_region,         \* filter_data: the selectbox value
    selected_municipalities, \* filter_data: the multiselect value
    filtered_df,             \* main: filtered_df
    kpis,                    \* render_kpis: the four scalars shown
    out,                     \* the elements drawn in this pass, in order
    io,                      \* the file reads and fetches of this pass, in order
    exc,                     \* the exception that ended this pass, "" for none
    map_exc,                 \* the exception caught in the map's column
    raw,                     \* a table given to preprocess_data on its own
    once,                    \* preprocess_data(raw)
    twice,                   \* preprocess_data(preprocess_data(raw))
    cpc                      \* which of the two has been computed

cvars == <<raw, once, twice, cpc>>

pvars == <<base_df, selected_region, selected_municipalities, filtered_df, kpis,
           out, io, exc, map_exc>>

mvars == <<file, cache_load_data, cache_geojson, pc, pvars>>

vars == <<mvars, cvars>>

NoResult == [ok |-> FALSE, df |-> <<>>]

\* -------------------------------------------------------- the render pass

Terminal == pc \in {"idle", "done", "stopped", "crashed"}

InitProcess ==
    /\ cache_load_data = EmptyCache
    /\ cache_geojson = EmptyCache
    /\ pc = "idle"
    /\ base_df = <<>>
    /\ selected_region = TODAS
    /\ selected_municipalities = {TODOS}
    /\ filtered_df = <<>>
    /\ kpis = NoKpis
    /\ out = <<>>
    /\ io = <<>>
    /\ exc = ""
    /\ map_exc = ""

InitNoClean ==
    /\ raw = <<>>
    /\ once = NoResult
    /\ twice = NoResult
    /\ cpc = "none"

\* main, line 275: a rerun of the script starts with configure_page
configure_page ==
    /\ Terminal
    /\ pc' = "configured"
    /\ base_df' = <<>>
    /\ selected_region' = TODAS
    /\ selected_municipalities' = {TODOS}
    /\ filtered_df' = <<>>
    /\ kpis' = NoKpis
    /\ out' = <<"title">>
    /\ io' = <<>>
    /\ exc' = ""
    /\ map_exc' = ""
    /\ UNCHANGED <<file, cache_load_data, cache_geojson, cvars>>

\* what main does with the outcome r of load_data
AfterLoad(r) ==
    /\ cache_load_data' = r.cache
    /\ io' = io \o r.io
    /\ exc' = r.exc
    /\ base_df' = r.value
    /\ pc' = IF r.exc = "" THEN "loaded"
             ELSE IF r.exc = "FileNotFoundError" THEN "stopped" ELSE "crashed"
    /\ out' = IF r.exc = "" THEN out
              ELSE IF r.exc = "FileNotFoundError" THEN out \o <<"error">>
              ELSE out \o <<"exception">>

\* main, lines 277-281: load_data, st.error and st.stop when the file is absent
main_load ==
    /\ pc = "configured"
    /\ AfterLoad(load_data(cache_load_data, file))
    /\ UNCHANGED <<file, cache_geojson, selected_region, selected_municipalities,
                   filtered_df, kpis, map_exc, cvars>>

\* main, lines 283-286: filter_data with the widgets' values, st.warning and
\* st.stop when nothing is left
main_filter ==
    /\ pc = "loaded"
    /\ \E region \in immediate_regions(base_df) :
         \E municipalities \in SUBSET municipality_options(base_df, region) :
            /\ selected_region' = region
            /\ selected_municipalities' = municipalities
            /\ filtered_df' = filter_data(base_df, region, municipalities)
    /\ pc' = IF empty(filtered_df') THEN "stopped" ELSE "filtered"
    /\ out' = IF empty(filtered_df') THEN out \o <<"sidebar", "no_records_warning">>
              ELSE out \o <<"sidebar">>
    /\ UNCHANGED <<file, cache_load_data, cache_geojson, base_df, kpis, io, exc,
                   map_exc, cvars>>

\* what the pass shows of the outcome r of render_dashboard
AfterRender(r) ==
    /\ cache_geojson' = r.cache
    /\ io' = io \o r.io
    /\ out' = IF r.exc = "" THEN out \o r.out ELSE out \o r.out \o <<"exception">>
    /\ exc' = r.exc
    /\ map_exc' = r.map_exc
    /\ kpis' = r.kpis
    /\ pc' = IF r.exc = "" THEN "done" ELSE "crashed"

\* main, line 288: render_dashboard(filtered_df)
main_render ==
    /\ pc = "filtered"
    /\ \E resp \in Responses : AfterRender(render_dashboard(filtered_df, cache_geojson, resp))
    /\ UNCHANGED <<file, cache_load_data, base_df, selected_region,
                   selected_municipalities, filtered_df, cvars>>

\* the environment removes the input file
RemoveFile ==
    /\ file.exists
    /\ file' = Missing
    /\ UNCHANGED <<cache_load_data, cache_geojson, pc, pvars, cvars>>

\* the environment writes the input file anew: a header alone, or one row
WriteFile ==
    /\ \E t \in {<<>>} \cup {WithIndex(<<r>>) : r \in FileRows} :
         /\ file # OnDisk(t)
         /\ file' = OnDisk(t)
    /\ UNCHANGED <<cache_load_data, cache_geojson, pc, pvars, cvars>>

\* render passes of one process, the file changing under it
Init ==
    /\ file \in {Missing} \cup {OnDisk(t) : t \in Tables(MaxFileRows)}
    /\ InitProcess
    /\ InitNoClean

Next ==
    \/ configure_page
    \/ main_load
    \/ main_filter
    \/ main_render
    \/ RemoveFile
    \/ WriteFile

Spec == Init /\ [][Next]_vars

\* render passes of one process over a file that stays as it is
InitFilter ==
    /\ file \in {Missing} \cup {OnDisk(t) : t \in Tables(MaxRows)}
    /\ InitProcess
    /\ InitNoClean

NextFilter ==
    \/ configure_page
    \/ main_load
    \/ main_filter
    \/ main_render

SpecFilter == InitFilter /\ [][NextFilter]_vars

\* ------------------------------------------ specification of the cleaning

InitClean ==
    /\ raw \in CleanTables
    /\ once = NoResult
    /\ twice = NoResult
    /\ cpc = "raw"
    /\ file = Missing
    /\ InitProcess

\* preprocess_data(df)
Clean ==
    /\ cpc = "raw"
    /\ once' = preprocess_data(raw)
    /\ cpc' = "once"
    /\ UNCHANGED <<raw, twice, mvars>>

\* preprocess_data(preprocess_data(df)), when the first call returned
CleanAgain ==
    /\ cpc = "once"
    /\ once.ok
    /\ twice' = preprocess_data(once.df)
    /\ cpc' = "twice"
    /\ UNCHANGED <<raw, once, mvars>>

NextClean == Clean \/ CleanAgain

SpecClean == InitClean /\ [][NextClean]_vars

\* ------------------------------------------------------------------ claims

Count(seq, x) == Cardinality({i \in DOMAIN seq : seq[i] = x})

\* C1: after preprocess_data, every cell of every column of NUMERIC_COLUMNS and
\* of INTEGER_COLUMNS is a number, is not missing and is not negative.
C1_CleanedCellsAreNonNegativeNumbers ==
    (cpc = "once" /\ once.ok) =>
        \A i \in DOMAIN once.df :
            \A col \in Range(NUMERIC_COLUMNS) \cup Range(INTEGER_COLUMNS) :
                LET c == once.df[i].cells[col]
                IN  IsNumber(c) /\ ~isna(c) /\ c.v >= 0

\* C8: cleaning is idempotent: whenever preprocess_data returns a table,
\* preprocess_data of that table returns the same table, cell by cell (missing
\* cells counting as equal), with the same rows in the same order.
C8_CleaningIsIdempotent ==
    cpc = "twice" =>
        /\ twice.ok
        /\ Len(twice.df) = Len(once.df)
        /\ \A i \in DOMAIN once.df :
              /\ twice.df[i].idx = once.df[i].idx
              /\ \A col \in COLUMNS : twice.df[i].cells[col] = once.df[i].cells[col]

\* a table of two rows cleaned twice, whose first cleaning rounded a half, filled
\* a blank and nulled an unparsable identifier
C8_Witness ==
    /\ cpc = "twice"
    /\ Len(raw) = 2
    /\ raw[1].cells[AF_COL] = FloatVal(1)
    /\ once.df[1].cells[AF_COL] = IntVal(0)
    /\ raw[2].cells[CREDIT_COL] = NaN
    /\ once.df[2].cells[CREDIT_COL] = FloatVal(0)
    /\ raw[2].cells[IBGE_COL] = Str(<<"x">>)
    /\ once.df[2].cells[IBGE_COL] = NA

\* filter_data has run in this pass
Filtered == "sidebar" \in Range(out)

\* the multiselect left at its default, or emptied: no municipality override
NoOverride == selected_municipalities = {} \/ TODOS \in selected_municipalities

\* the rows of df keep the order of their index labels, each at most once
Ordered(df) == \A i, j \in DOMAIN df : i < j => df[i].idx < df[j].idx

\* the regions offered by the selector besides the sentinel
SpecificRegions(df) == immediate_regions(df) \ {TODAS}

\* in how many of the region-filtered subsets row r is
TimesInRegionSubsets(df, r) ==
    Cardinality({g \in SpecificRegions(df) : r \in Range(filter_data(df, g, {TODOS}))})

RegionIdentityAndSelection ==
    /\ selected_region = TODAS => filtered_df = base_df
    /\ selected_region # TODAS =>
          /\ Ordered(filtered_df)
          /\ Range(filtered_df) =
                {r \in Range(base_df) : r.cells[IMMEDIATE_REGION_COL] = Str(selected_region)}

\* C2 (as stated): with no municipality override, "Todas" returns the input
\* unchanged, a specific region returns exactly the rows labelled with it, and
\* the subsets over all offered regions hold every row of the input exactly
\* once, rows with a missing region label included.
C2_RegionSubsetsHoldEveryRowOnce ==
    (Filtered /\ NoOverride) =>
        /\ RegionIdentityAndSelection
        /\ \A r \in Range(base_df) : TimesInRegionSubsets(base_df, r) = 1

\* C2 (amended): with no municipality override, "Todas" returns the input
\* unchanged, a specific region returns exactly the rows labelled with it, and
\* the subsets over all offered specific regions hold every row whose region
\* label is present (and is not the sentinel's text) exactly once, while a row
\* whose region label is missing is in none of them.
C2_RegionSubsetsHoldLabelledRowsOnce ==
    (Filtered /\ NoOverride) =>
        /\ RegionIdentityAndSelection
        /\ \A r \in Range(base_df) :
              LET label == r.cells[IMMEDIATE_REGION_COL]
              IN  TimesInRegionSubsets(base_df, r) =
                      IF ~isna(label) /\ label.s # TODAS THEN 1 ELSE 0

\* region RA selected with the default municipalities over an input that also
\* holds a row without region label
C2_Witness ==
    /\ Filtered
    /\ selected_region = RA
    /\ selected_municipalities = {TODOS}
    /\ Len(base_df) = 2
    /\ Len(filtered_df) = 1
    /\ \E r \in Range(base_df) : isna(r.cells[IMMEDIATE_REGION_COL])

\* C3: filter_data returns exactly the rows of the region-filtered set whose
\* municipality name is selected, or the whole region-filtered set when the
\* selection is empty or holds "Todos"; under a specific region no returned row
\* carries another region.
C3_MunicipalityFilterWithinRegion ==
    Filtered =>
        LET inRegion == IF selected_region = TODAS THEN Range(base_df)
                        ELSE {r \in Range(base_df) :
                                 r.cells[IMMEDIATE_REGION_COL] = Str(selected_region)}
            wanted == IF selected_municipalities = {} \/ TODOS \in selected_municipalities
                      THEN inRegion
                      ELSE {r \in inRegion : \E m \in selected_municipalities :
                               r.cells[MUNICIPALITY_COL] = Str(m)}
        IN  /\ Range(filtered_df) = wanted
            /\ Ordered(filtered_df)
            /\ selected_region # TODAS =>
                  \A i \in DOMAIN filtered_df :
                      filtered_df[i].cells[IMMEDIATE_REGION_COL] = Str(selected_region)

\* municipality MA selected under region RA while region RB has an MA too
C3_Witness ==
    /\ Filtered
    /\ selected_region = RA
    /\ selected_municipalities = {MA}
    /\ Len(filtered_df) = 1
    /\ \E r \in Range(base_df) :
          /\ r.cells[IMMEDIATE_REGION_COL] = Str(RB)
          /\ r.cells[MUNICIPALITY_COL] = Str(MA)

\* the sum of f over its domain
RECURSIVE SumOver(_)
SumOver(f) ==
    IF DOMAIN f = {} THEN 0
    ELSE LET k == CHOOSE x \in DOMAIN f : TRUE
         IN  f[k] + SumOver([x \in DOMAIN f \ {k} |-> f[x]])

\* what row k of the input file adds to the total of col: nothing when the cell
\* is blank or no number in the file, else its cleaned value (in halves)
Contribution(k, col) ==
    IF isna(to_numeric(file.df[k + 1].cells[col])) THEN 0
    ELSE base_df[k + 1].cells[col].v

\* C9: the three KPI sums are the sums of their columns over exactly the rows
\* of the filtered subset, each row once, a blank source cell adding zero; the
\* fourth KPI is the number of distinct municipality names of the subset.
C9_KpisSumTheFilteredSubset ==
    pc = "done" =>
        LET subset == {filtered_df[i].idx : i \in DOMAIN filtered_df}
            names == {r.cells[MUNICIPALITY_COL] : r \in Range(filtered_df)} \ {NaN}
        IN  /\ Cardinality(subset) = Len(filtered_df)
            /\ 2 * kpis.total_agricultores = SumOver([k \in subset |-> Contribution(k, AF_COL)])
            /\ kpis.total_credito = SumOver([k \in subset |-> Contribution(k, CREDIT_COL)])
            /\ 2 * kpis.total_mulheres = SumOver([k \in subset |-> Contribution(k, WOMEN_COL)])
            /\ kpis.total_municipios = Cardinality(names)

\* KPIs over a subset of two rows, one of them with a blank credit cell
C9_Witness ==
    /\ pc = "done"
    /\ Len(filtered_df) = 2
    /\ \E i \in DOMAIN filtered_df : file.df[filtered_df[i].idx + 1].cells[CREDIT_COL] = NaN
    /\ kpis.total_credito > 0
    /\ kpis.total_agricultores # kpis.total_mulheres

\* the elements of the dashboard body
BodyElements ==
    {"kpis", "map", "map_warning", "credit_concentration", "scatter", "donut",
     "dataframe", "download_button"}

\* the whole body has been drawn: KPIs, charts, table and export
BodyRendered ==
    {"kpis", "credit_concentration", "scatter", "donut", "dataframe", "download_button"}
        \subseteq Range(out)

\* this run of main has ended
PassEnded == pc \in {"done", "stopped", "crashed"}

C5_MapFailureDegradesAndContinues ==
    map_exc # "" =>
        /\ pc = "done"
        /\ exc = ""
        /\ out = <<"title", "sidebar", "kpis", "map_warning", "credit_concentration",
                   "scatter", "credit_concentration", "donut", "dataframe",
                   "download_button">>

\* a pass whose geometry fetch timed out
C5_Witness ==
    /\ map_exc = "timeout"
    /\ pc = "done"
    /\ "map_warning" \in Range(out)

\* the Dataset of this pass is in hand
HasDataset == pc \in {"loaded", "filtered", "done"} \/ (pc = "stopped" /\ Filtered)

\* C6: the Dataset is read and cleaned on first need and then cached: once
\* load_data has returned, the cache holds the Dataset, it never changes, no
\* later step reads or cleans the file, and every pass filters that Dataset,
\* whatever becomes of the file.
C6_DatasetLoadedOnceAndCached ==
    /\ [](HasDataset => (cache_load_data.hit /\ base_df = cache_load_data.value))
    /\ [][cache_load_data.hit =>
             /\ cache_load_data' = cache_load_data
             /\ Count(io', "read_csv") <= Count(io, "read_csv")
             /\ Count(io', "preprocess_data") <= Count(io, "preprocess_data")]_vars

\* a later pass served from the cache while the file on disk is gone
C6_Witness ==
    /\ pc = "done"
    /\ ~file.exists
    /\ Range(io) \cap {"read_csv", "preprocess_data"} = {}
    /\ base_df # <<>>

\* C7: the geometry fetch is attempted at most once per render pass, a failed
\* attempt going to the map's failure path without retry; a successful attempt
\* is cached, after which no pass fetches again and the map cannot fail.
C7_GeometryFetchedAtMostOnce ==
    /\ [](/\ Count(io, "urlopen") <= 1
          /\ map_exc # "" => (Count(io, "urlopen") = 1 /\ "map_warning" \in Range(out))
          /\ "map" \in Range(out) => cache_geojson.hit
          /\ cache_geojson.hit => map_exc = "")
    /\ [][cache_geojson.hit =>
             /\ cache_geojson' = cache_geojson
             /\ Count(io', "urlopen") <= Count(io, "urlopen")]_vars

\* a later pass drawing the map from the cached geometry, no fetch issued
C7_Witness ==
    /\ pc = "done"
    /\ cache_geojson.hit
    /\ "map" \in Range(out)
    /\ "urlopen" \notin Range(io)

\* C10: the credit-concentration chart is drawn in the full-width row, right
\* after the scatter chart, in every pass that renders the dashboard: once in
\* all when the map succeeds, twice when the map fails.
C10_ConcentrationChartOnceOrTwice ==
    pc = "done" =>
        /\ Count(out, "credit_concentration") = IF map_exc = "" THEN 1 ELSE 2
        /\ \E i \in DOMAIN out :
              /\ out[i] = "scatter"
              /\ i < Len(out)
              /\ out[i + 1] = "credit_concentration"

\* a pass whose map failed and that drew the chart twice
C10_Witness ==
    /\ pc = "done"
    /\ map_exc # ""
    /\ Count(out, "credit_concentration") = 2

====
